---- MODULE Spec2Model ----
(***************************************************************************)
(* VoiceChatLib (kelter-antunes/VoiceChatLib): the session lifecycle of    *)
(* the VoiceChat singleton, modelled from src/unnamed/part_000 (the        *)
(* variant with the microphone label, the base64 payload and the           *)
(* post-session analysis).                                                 *)
(*                                                                         *)
(* One action per public method (start, toggleMic, end, reset) and per     *)
(* host callback (getUserMedia resolution, animation frame, recorder       *)
(* dataavailable / stop, FileReader load, analysis settlement).  The host  *)
(* objects a grant creates (stream, audio context, recorder) are indexed   *)
(* by the getUserMedia request that produced them.                         *)
(***************************************************************************)
EXTENDS Integers, Sequences, FiniteSets, TLC

\* ------------------------------------------------------------------ bounds
MaxRequests == 2      \* getUserMedia requests issued in one run
MaxChunks == 1        \* non-empty fragments one recorder delivers
MaxNow == 200         \* last clock value (ms)
MaxEls == 2           \* voice elements the document can hold
MaxDraws == 2         \* distinct outcomes of the random draw that initialises an element
Bins == 2             \* bytes of one analyser read (frequencyBinCount of the model)
MaxDen == 64          \* largest denominator the smoothed amplitude is followed to
MaxSamples == 3       \* samples of the longest decoded clip

\* --------------------------------------------------------------- constants
MAX_DELTA == 100      \* this.MAX_DELTA
ShortGap == 50        \* a frame gap below MAX_DELTA (ms)
LongGap == 150        \* a frame gap above MAX_DELTA (ms)
T0 == 50              \* performance.now() when the instance is constructed

NULL == 0             \* a null handle
NoTime == -1          \* a null timestamp

\* ------------------------------------------------------------- arithmetic
\* The numbers the code computes with are kept exact: a fraction << n, d >> with
\* d > 0, in lowest terms.
RECURSIVE GCD(_, _)
GCD(a, b) == IF b = 0 THEN a ELSE GCD(b, a % b)

Abs(x) == IF x < 0 THEN -x ELSE x

Rat(n, d) == LET g == GCD(Abs(n), d) IN << n \div g, d \div g >>

Whole(k) == << k, 1 >>
Zero == Whole(0)
One == Whole(1)

RatAdd(a, b) == Rat(a[1] * b[2] + b[1] * a[2], a[2] * b[2])
RatSub(a, b) == Rat(a[1] * b[2] - b[1] * a[2], a[2] * b[2])
RatMul(a, b) == Rat(a[1] * b[1], a[2] * b[2])
RatDiv(a, b) == Rat(a[1] * b[2], a[2] * b[1])
RatLt(a, b) == a[1] * b[2] < b[1] * a[2]
RatLeq(a, b) == a[1] * b[2] <= b[1] * a[2]

\* Number.prototype.toFixed(digits) followed by parseFloat: the nearest multiple of
\* 1/scale (scale = 10^digits) of a number that is not negative.
ToFixed(x, scale) == Rat((2 * x[1] * scale + x[2]) \div (2 * x[2]), scale)

Req == 1..MaxRequests

\* requestAnimationFrame ids.  The code only stores an id and hands it back to
\* cancelAnimationFrame, so an id that is neither outstanding nor stored is as good
\* as a new one: one id more than there can be animation loops is enough.
FrameIds == 1..(MaxRequests + 1)

\* The nodes that can match the voiceEls selector, and the outcomes of the random
\* draw of offset, speed, scaleMultiplier and transform origin.
Els == 1..MaxEls
Draws == 1..MaxDraws

VARIABLES
  hostRecorder,    \* window.MediaRecorder is defined
  instance,        \* the closure's instance: NULL or the identity of the VoiceChat object
  returned,        \* what the last getInstance() call returned (NULL before any call)
  config,          \* this.config: a function from option keys to values
  sound,           \* the bytes getByteTimeDomainData() hands out at present
  channelData,     \* analyzeAudio: what the clip under analysis holds (see Clips)
  analysis,        \* analyzeAudio: how its promise settled
  smoothedAmplitude, \* this.smoothedAmplitude
  now,             \* performance.now()
  req,             \* getUserMedia request i: "unused" | "pending" | "stale" (pending, and end() or
                   \* reset() has run since it was issued) | "granted" | "denied"
  audioStream,     \* this.audioStream   (NULL or the request that produced it)
  audioContext,    \* this.audioContext
  analyser,        \* this.analyser
  mediaRecorder,   \* this.mediaRecorder
  trackEnabled,    \* stream i: its audio track's enabled
  trackLive,       \* stream i: its track's readyState is "live"
  ctxState,        \* audio context i: "none" | "running" | "closed"
  recState,        \* recorder i: "none" | "recording" | "paused" | "inactive"
  onstopSet,       \* recorder i: end() installed its onstop handler
  stopQueued,      \* recorder i: stop() was called, its stop task has not run
  stopFired,       \* recorder i: its stop event has fired
  delivered,       \* recorder i: non-empty fragments delivered so far
  pipe,            \* recorder i: "none" | "readBinary" | "readDataURL" | "readFailed" |
                   \* "analyzing" | "done"
  clip,            \* recorder i: the Blob onstop assembled (a sequence of fragments)
  durationMs,      \* recorder i: the durationMs onstop computed (NoTime before it ran)
  grantedAt,       \* request i: performance.now() when its grant was handled
  emptyAtEnd,      \* recorder i: this.recordedChunks was empty when end() stopped it
  animationId,     \* this.animationId (NULL or a request id)
  rafPending,      \* outstanding requestAnimationFrame ids
  isMicOn,         \* this.isMicOn
  audioStarted,    \* this.audioStarted
  recordedChunks,  \* this.recordedChunks
  startTime,       \* this.startTime
  lastFrameTime,   \* this.lastFrameTime
  domObserver,     \* this.domObserver exists
  toggleBtn,       \* this.toggleBtn refers to the toggle control
  endBtn,          \* this.endBtn refers to the end control
  toggleDisabled,  \* the toggle control's disabled
  endDisabled,     \* the end control's disabled
  inDom,           \* the nodes in the document that match the voiceEls selector
  voiceEls,        \* this.voiceEls
  el,              \* node e: initialized, its random draw (0: none), and what its
                   \* currentRotation / currentScale was last computed by ("rest": 0 and 1,
                   \* "predicted": initElements, "frame": updateAnimation), from which
                   \* start time (base) and at which time (at)
  lastCall,        \* the host method the last handler invoked, and the state of the object
                   \* it was invoked on
  fault,           \* the last handler threw: "none" | "InvalidStateError"
  emitted          \* the notifications the last handler passed to onStart/onToggle/onEnd

vars == << hostRecorder, instance, returned, config, sound, channelData, analysis,
           smoothedAmplitude, now, req, audioStream, audioContext, analyser, mediaRecorder,
           trackEnabled, trackLive, ctxState, recState, onstopSet, stopQueued, stopFired,
           delivered, pipe, clip, durationMs, grantedAt, emptyAtEnd, animationId, rafPending,
           isMicOn, audioStarted, recordedChunks, startTime, lastFrameTime, domObserver,
           toggleBtn, endBtn, toggleDisabled, endDisabled, inDom, voiceEls, el,
           lastCall, fault, emitted >>

hostVars == << trackEnabled, trackLive, ctxState, recState, onstopSet, stopQueued,
               stopFired, delivered, pipe, clip, durationMs, grantedAt, emptyAtEnd >>
handleVars == << audioStream, audioContext, analyser, mediaRecorder >>
frameVars == << animationId, rafPending >>
timeVars == << startTime, lastFrameTime >>
uiVars == << domObserver, toggleBtn, endBtn, toggleDisabled, endDisabled >>
elVars == << inDom, voiceEls, el >>
\* What no step of a session changes: the host's capabilities, the singleton and
\* its configuration, the sound at the microphone and the analyzer's own call.
fixedVars == << hostRecorder, instance, returned, config, sound, channelData, analysis >>

\* ----------------------------------------------------------- notifications
NoCall == [op |-> "none", on |-> "none"]

DetailsStarted == "VoiceChat audio and recording successfully started"
DetailsToggled == "Microphone toggled"
DetailsEnded == "VoiceChat session ended"
DetailsAnalysisFailed == "VoiceChat session ended (audio analysis failed)"
DetailsNoAudio == "VoiceChat session ended (no audio recorded)"

ClipFields == {"audioBlob", "audioMeta", "audioBinary", "audioBase64", "fileName", "analysis"}

\* A slip: the start notification reports the microphone as on.
StartNote_MicOn(mic) ==
  [event |-> "start", details |-> DetailsStarted, isMicOn |-> TRUE,
   fields |-> {"isMicOn", "microphoneLabel"}, rec |-> NULL, clip |-> << >>,
   duration |-> NoTime, analysis |-> "none"]

StartNote(mic) ==
  [event |-> "start", details |-> DetailsStarted, isMicOn |-> mic,
   fields |-> {"isMicOn", "microphoneLabel"}, rec |-> NULL, clip |-> << >>,
   duration |-> NoTime, analysis |-> "none"]

ToggleNote(mic) ==
  [event |-> "toggleMic", details |-> DetailsToggled, isMicOn |-> mic,
   fields |-> {"isMicOn"}, rec |-> NULL, clip |-> << >>, duration |-> NoTime,
   analysis |-> "none"]

EndNoteNoClip ==
  [event |-> "end", details |-> DetailsNoAudio, isMicOn |-> TRUE,
   fields |-> {}, rec |-> NULL, clip |-> << >>, duration |-> NoTime, analysis |-> "none"]

\* A slip: the catch continuation reports the same details as the then continuation.
EndNoteClip_SameDetails(r, blob, ms, outcome) ==
  [event |-> "end", details |-> DetailsEnded,
   isMicOn |-> TRUE, fields |-> ClipFields, rec |-> r, clip |-> blob,
   duration |-> ms, analysis |-> outcome]

EndNoteClip(r, blob, ms, outcome) ==
  [event |-> "end",
   details |-> IF outcome = "resolved" THEN DetailsEnded ELSE DetailsAnalysisFailed,
   isMicOn |-> TRUE, fields |-> ClipFields, rec |-> r, clip |-> blob,
   duration |-> ms, analysis |-> outcome]

\* ----------------------------------------------------------- configuration
\* this.config as the constructor first sets it.
DefaultConfig ==
  [amplitudeSmoothFactorVar |-> Rat(3, 10),
   baseRotationDivisor |-> Whole(16),
   dynamicLerpMin |-> Rat(1, 20),
   dynamicLerpAudioMultiplier |-> Rat(1, 2),
   maxAdditionalRotation |-> Whole(360),
   baseScaleMultiplier |-> Whole(2),
   elements |-> [toggleBtn |-> "#toggleMicBtn", endBtn |-> "#endChatBtn",
                 voiceEls |-> ".a-cue-voice-el"]]

\* An options object is a function from the keys it owns to their values; a call
\* without options passes none.
NoOptions == << >>

\* The options the demonstration page passes to its getInstance() call.
DemoOptions == DefaultConfig

\* A slip: the options' elements object replaces the configured one.
MergeElements_Replace(els, given) == given

\* The inner loop over options.elements: the sub-keys given are assigned, the others
\* are left as they are.
MergeElements(els, given) ==
  [sk \in DOMAIN els \cup DOMAIN given |-> IF sk \in DOMAIN given THEN given[sk] ELSE els[sk]]

\* The loop over the options' own keys, of the constructor and of setOptions().
MergeOptions(cfg, options) ==
  [k \in DOMAIN cfg \cup DOMAIN options |->
     IF k \notin DOMAIN options THEN cfg[k]
     ELSE IF k = "elements" THEN MergeElements(cfg[k], options[k])
     ELSE options[k]]

\* ------------------------------------------------------------------- sound
\* One read of the analyser: Bins unsigned bytes, 128 being the resting level.
Silence == [k \in 1..Bins |-> 128]

\* The sum of |dataArray[i] - 128| over the bytes of one read.
RECURSIVE SumDeviation(_, _)
SumDeviation(data, k) == IF k = 0 THEN 0 ELSE SumDeviation(data, k - 1) + Abs(data[k] - 128)

\* A slip: the sum is not averaged over the bytes.
AmplitudeNormalized_Unaveraged(data) == RatDiv(Whole(SumDeviation(data, Bins)), Whole(128))

\* average = sum / dataArray.length; amplitudeNormalized = average / 128.
AmplitudeNormalized(data) ==
  RatDiv(RatDiv(Whole(SumDeviation(data, Bins)), Whole(Bins)), Whole(128))

\* A slip: the new reading is added unweighted.
Smooth_Unweighted(s, x, a) == RatAdd(RatMul(s, RatSub(One, a)), x)

\* smoothedAmplitude * (1 - factor) + amplitudeNormalized * factor.
Smooth(s, x, a) == RatAdd(RatMul(s, RatSub(One, a)), RatMul(x, a))

\* ------------------------------------------------------------------- state
Falsy(t) == t = NoTime \/ t = 0

\* currentRotation / currentScale of a node initElements() has not seen yet, and of
\* a node frames have written: a frame moves both a fraction of the way to their
\* targets, and the model follows which frame wrote them (writer, base, at), not the
\* interpolated numbers.
Unset == << 0, 0 >>
Lerped == << 1, 0 >>

\* A node initElements() has not seen yet.
NoEl == [initialized |-> FALSE, draw |-> 0, writer |-> "none", base |-> NoTime,
         at |-> NoTime, rotation |-> Unset, scale |-> Unset]

\* The lifecycle states of the specification, read off the fields the code keeps.
Capturing == audioStarted /\ audioStream # NULL /\ trackLive[audioStream]
Idle == ~audioStarted
Ended == audioStarted /\ ~Capturing

\* The host before any request, and the fields as the constructor sets them.
Fresh ==
  /\ hostRecorder \in BOOLEAN
  /\ now = T0
  /\ req = [i \in Req |-> "unused"]
  /\ audioStream = NULL /\ audioContext = NULL /\ analyser = NULL /\ mediaRecorder = NULL
  /\ trackEnabled = [i \in Req |-> FALSE]
  /\ trackLive = [i \in Req |-> FALSE]
  /\ ctxState = [i \in Req |-> "none"]
  /\ recState = [i \in Req |-> "none"]
  /\ onstopSet = [i \in Req |-> FALSE]
  /\ stopQueued = [i \in Req |-> FALSE]
  /\ stopFired = [i \in Req |-> FALSE]
  /\ delivered = [i \in Req |-> 0]
  /\ pipe = [i \in Req |-> "none"]
  /\ clip = [i \in Req |-> << >>]
  /\ durationMs = [i \in Req |-> NoTime]
  /\ grantedAt = [i \in Req |-> NoTime]
  /\ emptyAtEnd = [i \in Req |-> FALSE]
  /\ animationId = NULL /\ rafPending = {}
  /\ isMicOn = TRUE /\ audioStarted = FALSE
  /\ recordedChunks = << >>
  /\ startTime = NoTime /\ lastFrameTime = NoTime
  /\ domObserver = FALSE /\ toggleBtn = FALSE /\ endBtn = FALSE
  /\ toggleDisabled = FALSE /\ endDisabled = FALSE
  /\ inDom = {} /\ voiceEls = {}
  /\ el = [e \in Els |-> NoEl]
  /\ smoothedAmplitude = Zero
  /\ lastCall = NoCall /\ fault = "none" /\ emitted = << >>

\* analyzeAudio has not been called.
NoClip == [kind |-> "none", samples |-> << >>]
NotRun == [state |-> "none", avgAmplitude |-> Zero, isMostlySilence |-> FALSE]

\* The page after its script has run getInstance() with the demonstration's options;
\* the microphone hears nothing.
Init ==
  /\ Fresh
  /\ instance = 1 /\ returned = 1
  /\ config = MergeOptions(DefaultConfig, DemoOptions)
  /\ sound = Silence
  /\ channelData = NoClip /\ analysis = NotRun

\* ------------------------------------------------------------ host objects
\* MediaRecorder.pause(): InvalidStateError on an inactive recorder.
RecorderPause(s) == IF s = "inactive" THEN "throw" ELSE "paused"

\* MediaRecorder.resume(): InvalidStateError on an inactive recorder.
RecorderResume(s) == IF s = "inactive" THEN "throw" ELSE "recording"

\* cancelAnimationFrame(id): the request, if still outstanding, is dropped.
CancelFrame(pend, id) == IF id # NULL THEN pend \ {id} ELSE pend

\* track.stop() on every track of the held stream.
StopTracks(live, strm) == IF strm # NULL THEN [live EXCEPT ![strm] = FALSE] ELSE live

\* ----------------------------------------------------------------- start()
\* What initElements() leaves on a node it initialises at time t, with random draw d:
\* the rotation and scale predicted from the elapsed time when audio has started and
\* this.startTime is a number, 0 and 1 otherwise.
\* The Math.random() results of draw d, for offset, speed and scaleMultiplier.
RandomDraw(d) == IF d = 1 THEN << Zero, Zero, Zero >>
                 ELSE << Rat(1, 7), Rat(1, 3), Rat(1, 3) >>

\* parseFloat of dataset.offset, dataset.speed, dataset.scaleMultiplier.
Offset(d) == ToFixed(RatMul(RandomDraw(d)[1], Whole(360)), 1)
Speed(d) == ToFixed(RatAdd(One, RatMul(RandomDraw(d)[2], Whole(2))), 100)
ScaleMultiplier(d) == ToFixed(RatAdd(One, RatMul(RandomDraw(d)[3], Rat(3, 2))), 100)

\* baseRot + addRot of initElements(), tarScale of initElements().
PredictedRotation(d, effectiveTime, amp, cfg) ==
  RatAdd(RatAdd(Offset(d),
                RatDiv(RatMul(Whole(effectiveTime), Speed(d)), cfg["baseRotationDivisor"])),
         RatMul(amp, cfg["maxAdditionalRotation"]))
PredictedScale(d, amp, cfg) ==
  RatAdd(One, RatMul(RatMul(amp, ScaleMultiplier(d)), cfg["baseScaleMultiplier"]))

\* this.audioStarted && typeof this.startTime === "number".
Predicts(started, st) == started /\ st # NoTime

BindElement(d, t, st, started, amp, cfg) ==
  IF Predicts(started, st)
  THEN [initialized |-> TRUE, draw |-> d, writer |-> "predicted", base |-> st, at |-> t,
        rotation |-> PredictedRotation(d, t - st, amp, cfg),
        scale |-> PredictedScale(d, amp, cfg)]
  ELSE [initialized |-> TRUE, draw |-> d, writer |-> "rest", base |-> NoTime,
        at |-> NoTime, rotation |-> Zero, scale |-> One]

\* A slip: every matched node is initialised, without the test of el.initialized.
ToInitialize_All == inDom

\* The nodes initElements() initialises: those matched that are not initialized.
ToInitialize == {e \in inDom : ~el[e].initialized}

\* initElements(): the toggle and end controls are resolved and bound, the voice
\* elements are looked up, and those not yet initialized get their random draw and
\* their first rotation and scale.
InitElements ==
  /\ toggleBtn' = TRUE
  /\ endBtn' = TRUE
  /\ voiceEls' = inDom
  /\ \E d \in [ToInitialize -> Draws] :
       el' = [e \in Els |-> IF e \in ToInitialize
                             THEN BindElement(d[e], now, startTime, audioStarted,
                                              smoothedAmplitude, config)
                             ELSE el[e]]
  /\ UNCHANGED << toggleDisabled, endDisabled >>

\* A slip: the microphone is requested whenever nothing is being captured.
StartRequests_UnlessCapturing == ~Capturing

\* start(): the microphone is requested unless audio has already started.
StartRequests == ~audioStarted

NextRequest == CHOOSE i \in Req : req[i] = "unused" /\ \A j \in Req : j < i => req[j] # "unused"

Start ==
  /\ StartRequests => \E i \in Req : req[i] = "unused"
  /\ domObserver' = TRUE
  /\ InitElements
  /\ req' = IF StartRequests THEN [req EXCEPT ![NextRequest] = "pending"] ELSE req
  /\ lastCall' = NoCall /\ fault' = "none" /\ emitted' = << >>
  /\ UNCHANGED << fixedVars, smoothedAmplitude, now, handleVars, hostVars, frameVars, timeVars,
                  isMicOn, audioStarted, recordedChunks, inDom >>

\* The MutationObserver callback: initElements() again.
DomMutation ==
  /\ domObserver
  /\ InitElements
  /\ lastCall' = NoCall /\ fault' = "none" /\ emitted' = << >>
  /\ UNCHANGED << fixedVars, smoothedAmplitude, now, req, handleVars, hostVars, frameVars, timeVars,
                  isMicOn, audioStarted, recordedChunks, domObserver, inDom >>

\* --------------------------------------------------------- updateAnimation()
\* A slip: the frame-gap test is left out.
FrameStart_NoGapTest(st, lft, t) == IF Falsy(lft) THEN t ELSE st

\* A slip: updateAnimation() goes on without an analyser.
NoAnalyser_Ignored(an) == FALSE

\* if (!self.analyser) return;
NoAnalyser(an) == an = NULL

\* The effective-time base after the frame-gap test.
FrameStart(st, lft, t) ==
  IF Falsy(lft) THEN t
  ELSE IF t - lft > MAX_DELTA THEN t ELSE st

\* The id requestAnimationFrame returns: one that is not outstanding and that
\* this.animationId does not hold.
NewFrameId(pend) ==
  CHOOSE id \in FrameIds :
    /\ id \notin pend \cup {animationId}
    /\ \A j \in FrameIds : j < id => j \in pend \cup {animationId}

\* What a frame at time t, with start time st, leaves on a node of this.voiceEls.
FrameWrite(x, st, t) ==
  [x EXCEPT !.writer = "frame", !.base = st, !.at = t, !.rotation = Lerped,
            !.scale = Lerped]

\* The smoothed amplitude after one more reading of the analyser.
NextAmplitude ==
  Smooth(smoothedAmplitude, AmplitudeNormalized(sound), config["amplitudeSmoothFactorVar"])

\* updateAnimation() on analyser an, timestamps st/lft and outstanding requests pend.
UpdateAnimation(an, st, lft, pend) ==
  IF NoAnalyser(an)
  THEN /\ startTime' = st
       /\ lastFrameTime' = lft
       /\ rafPending' = pend
       /\ UNCHANGED << animationId, el, smoothedAmplitude >>
  ELSE /\ NextAmplitude[2] <= MaxDen
       /\ smoothedAmplitude' = NextAmplitude
       /\ startTime' = FrameStart(st, lft, now)
       /\ lastFrameTime' = now
       /\ el' = [e \in Els |-> IF e \in voiceEls
                                THEN FrameWrite(el[e], FrameStart(st, lft, now), now)
                                ELSE el[e]]
       /\ animationId' = NewFrameId(pend)
       /\ rafPending' = pend \cup {NewFrameId(pend)}

\* The requestAnimationFrame callback of request id.
Frame(id) ==
  /\ id \in rafPending
  /\ UpdateAnimation(analyser, startTime, lastFrameTime, rafPending \ {id})
  /\ lastCall' = NoCall /\ fault' = "none" /\ emitted' = << >>
  /\ UNCHANGED << fixedVars, now, req, handleVars, hostVars, isMicOn, audioStarted,
                  recordedChunks, uiVars, inDom, voiceEls >>

\* The page calls updateAnimation() itself.  Only the calls made while no analyser
\* is attached are followed: a call on a session with an analyser starts one more
\* frame loop.
UpdateAnimationCall ==
  /\ analyser = NULL
  /\ UpdateAnimation(analyser, startTime, lastFrameTime, rafPending)
  /\ lastCall' = NoCall /\ fault' = "none" /\ emitted' = << >>
  /\ UNCHANGED << fixedVars, now, req, handleVars, hostVars, isMicOn, audioStarted,
                  recordedChunks, uiVars, inDom, voiceEls >>

\* The sound at the microphone changes: the analyser's next read yields data.
\* Three of them are followed: silence, the largest deviation in every byte, and the
\* largest deviation in the first byte only.
Sounds == {Silence, [k \in 1..Bins |-> 0], [k \in 1..Bins |-> IF k = 1 THEN 0 ELSE 128]}

Sound(data) ==
  /\ data # sound
  /\ sound' = data
  /\ lastCall' = NoCall /\ fault' = "none" /\ emitted' = << >>
  /\ UNCHANGED << hostRecorder, instance, returned, config, channelData, analysis,
                  smoothedAmplitude, now, req, handleVars, hostVars, frameVars, timeVars,
                  isMicOn, audioStarted, recordedChunks, uiVars, elVars >>

\* ------------------------------------------------------------- initAudio()
RecorderOutcomes == {"ok", "ctorThrows", "startThrows"}

\* The recorder the grant leaves in this.mediaRecorder.
RecorderAfterGrant(i, out) ==
  IF hostRecorder /\ out # "ctorThrows" THEN i ELSE mediaRecorder

\* getUserMedia resolved for request i; out is what constructing the recorder does.
MicGranted(i, out) ==
  /\ req[i] \in {"pending", "stale"}
  /\ hostRecorder \/ out = "ok"
  /\ req' = [req EXCEPT ![i] = "granted"]
  /\ grantedAt' = [grantedAt EXCEPT ![i] = now]
  /\ audioStream' = i
  /\ audioContext' = i
  /\ analyser' = i
  /\ trackLive' = [trackLive EXCEPT ![i] = TRUE]
  /\ trackEnabled' = [trackEnabled EXCEPT ![i] = TRUE]
  /\ ctxState' = [ctxState EXCEPT ![i] = "running"]
  /\ UpdateAnimation(i, now, now, rafPending)
  /\ audioStarted' = TRUE
  /\ recordedChunks' = IF hostRecorder THEN << >> ELSE recordedChunks
  /\ mediaRecorder' = RecorderAfterGrant(i, out)
  /\ recState' = IF hostRecorder /\ out = "ok" THEN [recState EXCEPT ![i] = "recording"]
                 ELSE IF hostRecorder /\ out = "startThrows"
                      THEN [recState EXCEPT ![i] = "inactive"]
                      ELSE recState
  /\ lastCall' = IF hostRecorder /\ out # "ctorThrows"
                 THEN [op |-> "start", on |-> "inactive"] ELSE NoCall
  /\ fault' = "none"
  /\ emitted' = << StartNote(isMicOn) >>
  /\ UNCHANGED << fixedVars, now, onstopSet, stopQueued, stopFired, delivered, pipe,
                  clip, durationMs, emptyAtEnd, isMicOn, uiVars, inDom, voiceEls >>

\* A slip: the rejection handler asks for the microphone again.
MicDenied_Retries(i) ==
  /\ req[i] \in {"pending", "stale"}
  /\ req' = [j \in Req |-> IF j = i THEN "denied"
                            ELSE IF req[j] = "unused" THEN "pending" ELSE req[j]]
  /\ lastCall' = [op |-> "alert", on |-> "window"]
  /\ fault' = "none" /\ emitted' = << >>
  /\ UNCHANGED << fixedVars, smoothedAmplitude, now, handleVars, hostVars, frameVars, timeVars,
                  isMicOn, audioStarted, recordedChunks, uiVars,
                  elVars >>

\* getUserMedia rejected for request i: the error is logged and shown with alert().
MicDenied(i) ==
  /\ req[i] \in {"pending", "stale"}
  /\ req' = [req EXCEPT ![i] = "denied"]
  /\ lastCall' = [op |-> "alert", on |-> "window"]
  /\ fault' = "none" /\ emitted' = << >>
  /\ UNCHANGED << fixedVars, smoothedAmplitude, now, handleVars, hostVars, frameVars, timeVars,
                  isMicOn, audioStarted, recordedChunks, uiVars,
                  elVars >>

\* ------------------------------------------------------------- toggleMic()
\* A slip: pause() / resume() without the test of the recorder's state.
ToggleCall_Unguarded(mic, s) == IF mic THEN "pause" ELSE "resume"

\* The recorder method toggleMic() invokes on a recorder in state s: "none" when its
\* state test fails.
ToggleCall(mic, s) ==
  IF mic
  THEN IF s = "recording" THEN "pause" ELSE "none"
  ELSE IF s = "paused" THEN "resume" ELSE "none"

\* The mic-enabled flag after toggleMic(), given this.mediaRecorder and this.audioStream.
MicAfterToggle(mr, strm, mic) ==
  IF mr # NULL
  THEN (IF mic THEN FALSE ELSE TRUE)
  ELSE IF strm # NULL THEN ~mic ELSE mic

\* What the invoked method leaves the recorder in ("throw": InvalidStateError).
ToggleRecorderResult(call, s) ==
  IF call = "pause" THEN RecorderPause(s)
  ELSE IF call = "resume" THEN RecorderResume(s)
  ELSE s

ToggleMic ==
  LET s == IF mediaRecorder # NULL THEN recState[mediaRecorder] ELSE "none"
      call == IF mediaRecorder # NULL THEN ToggleCall(isMicOn, s) ELSE "none"
      after == ToggleRecorderResult(call, s)
      mic == MicAfterToggle(mediaRecorder, audioStream, isMicOn)
  IN  /\ lastCall' = IF call = "none" THEN NoCall ELSE [op |-> call, on |-> s]
      /\ IF after = "throw"
         THEN /\ fault' = "InvalidStateError"
              /\ emitted' = << >>
              /\ UNCHANGED << isMicOn, recState, trackEnabled >>
         ELSE /\ fault' = "none"
              /\ isMicOn' = mic
              /\ recState' = IF mediaRecorder # NULL
                             THEN [recState EXCEPT ![mediaRecorder] = after]
                             ELSE recState
              /\ trackEnabled' = IF audioStream # NULL
                                 THEN [trackEnabled EXCEPT ![audioStream] = mic]
                                 ELSE trackEnabled
              /\ emitted' = << ToggleNote(mic) >>
      /\ UNCHANGED << fixedVars, smoothedAmplitude, now, req, handleVars, trackLive, ctxState, onstopSet,
                      stopQueued, stopFired, delivered, pipe, clip, durationMs, grantedAt,
                      emptyAtEnd, frameVars, timeVars, audioStarted, recordedChunks, uiVars,
                      elVars >>

\* ------------------------------------------------------------------- end()
\* A slip: any recorder held is waited for, whatever its state.
EndWaitsForStop_AnyRecorder(mr, rs) == mr # NULL

\* end() waits for the recorder's stop event: the recorder is recording or paused.
EndWaitsForStop(mr, rs) ==
  mr # NULL /\ (rs[mr] = "recording" \/ rs[mr] = "paused")

\* A pending microphone request that end() or reset() overtook.
Overtaken(r) == [i \in Req |-> IF r[i] = "pending" THEN "stale" ELSE r[i]]

\* A slip: the handler's body runs inside end() (the clip is assembled and read at
\* once) instead of being kept for the stop event.
EndStopsRecorder_Sync(r) ==
  /\ onstopSet' = [onstopSet EXCEPT ![r] = TRUE]
  /\ recState' = [recState EXCEPT ![r] = "inactive"]
  /\ stopQueued' = [stopQueued EXCEPT ![r] = TRUE]
  /\ emptyAtEnd' = [emptyAtEnd EXCEPT ![r] = (recordedChunks = << >>)]
  /\ lastCall' = [op |-> "stop", on |-> recState[r]]
  /\ emitted' = << >>
  /\ clip' = [clip EXCEPT ![r] = recordedChunks]
  /\ pipe' = [pipe EXCEPT ![r] = "readBinary"]

\* end() with a recorder to wait for: its onstop handler is installed and stop() is
\* called; the handler runs when the stop event fires, not before.
EndStopsRecorder(r) ==
  /\ onstopSet' = [onstopSet EXCEPT ![r] = TRUE]
  /\ recState' = [recState EXCEPT ![r] = "inactive"]
  /\ stopQueued' = [stopQueued EXCEPT ![r] = TRUE]
  /\ emptyAtEnd' = [emptyAtEnd EXCEPT ![r] = (recordedChunks = << >>)]
  /\ lastCall' = [op |-> "stop", on |-> recState[r]]
  /\ emitted' = << >>
  /\ UNCHANGED << pipe, clip >>

\* end() with no recorder to wait for: onEnd is called at once, without a clip.
EndWithoutRecorder ==
  /\ emitted' = << EndNoteNoClip >>
  /\ lastCall' = NoCall
  /\ UNCHANGED << onstopSet, recState, stopQueued, emptyAtEnd, pipe, clip >>

End ==
  /\ rafPending' = CancelFrame(rafPending, animationId)
  /\ trackLive' = StopTracks(trackLive, audioStream)
  /\ ctxState' = IF audioContext # NULL
                 THEN [ctxState EXCEPT ![audioContext] = "closed"] ELSE ctxState
  /\ toggleDisabled' = (IF toggleBtn THEN TRUE ELSE toggleDisabled)
  /\ endDisabled' = (IF endBtn THEN TRUE ELSE endDisabled)
  /\ IF EndWaitsForStop(mediaRecorder, recState)
     THEN EndStopsRecorder(mediaRecorder)
     ELSE EndWithoutRecorder
  /\ req' = Overtaken(req)
  /\ fault' = "none"
  /\ UNCHANGED << fixedVars, smoothedAmplitude, now, handleVars, trackEnabled, stopFired, delivered,
                  durationMs, grantedAt, animationId, timeVars, isMicOn, audioStarted,
                  recordedChunks, domObserver, toggleBtn, endBtn, elVars >>

\* ----------------------------------------------------------------- reset()
\* reset() stops the recorder: one is held and it is not inactive.
ResetStopsRecorder(mr, rs) == mr # NULL /\ rs[mr] # "inactive"

\* A slip: the timestamp outlives reset().
ClearedTime_Kept(t) == t

\* this.startTime = null, this.lastFrameTime = null.
ClearedTime(t) == NoTime

Reset ==
  /\ rafPending' = CancelFrame(rafPending, animationId)
  /\ animationId' = NULL
  /\ trackLive' = StopTracks(trackLive, audioStream)
  /\ audioStream' = NULL
  /\ ctxState' = IF audioContext # NULL /\ ctxState[audioContext] # "closed"
                 THEN [ctxState EXCEPT ![audioContext] = "closed"] ELSE ctxState
  /\ audioContext' = NULL
  /\ IF ResetStopsRecorder(mediaRecorder, recState)
     THEN /\ recState' = [recState EXCEPT ![mediaRecorder] = "inactive"]
          /\ stopQueued' = [stopQueued EXCEPT ![mediaRecorder] = TRUE]
          /\ lastCall' = [op |-> "stop", on |-> recState[mediaRecorder]]
          /\ mediaRecorder' = NULL
     ELSE /\ lastCall' = NoCall
          /\ UNCHANGED << recState, stopQueued, mediaRecorder >>
  /\ recordedChunks' = << >>
  /\ startTime' = ClearedTime(startTime)
  /\ lastFrameTime' = ClearedTime(lastFrameTime)
  /\ audioStarted' = FALSE
  /\ isMicOn' = TRUE
  /\ toggleDisabled' = (IF toggleBtn THEN FALSE ELSE toggleDisabled)
  /\ endDisabled' = (IF endBtn THEN FALSE ELSE endDisabled)
  /\ toggleBtn' = FALSE
  /\ endBtn' = FALSE
  /\ voiceEls' = {}
  /\ req' = Overtaken(req)
  /\ fault' = "none" /\ emitted' = << >>
  /\ UNCHANGED << fixedVars, smoothedAmplitude, now, analyser, trackEnabled, onstopSet, stopFired,
                  delivered, pipe, clip, durationMs, grantedAt, emptyAtEnd, domObserver,
                  inDom, el >>

\* ------------------------------------------------------- recorder callbacks
\* ondataavailable: a fragment of the given size is kept unless it is empty.
PushChunk(chunks, r, size) ==
  IF size > 0 THEN Append(chunks, << r, delivered[r] + 1 >>) ELSE chunks

FragmentSizes == {0, 1}

\* A periodic dataavailable event of recorder r while it records.
DataAvailable(r, size) ==
  /\ recState[r] = "recording"
  /\ size > 0 => delivered[r] < MaxChunks
  /\ recordedChunks' = PushChunk(recordedChunks, r, size)
  /\ delivered' = [delivered EXCEPT ![r] = IF size > 0 THEN @ + 1 ELSE @]
  /\ lastCall' = NoCall /\ fault' = "none" /\ emitted' = << >>
  /\ UNCHANGED << fixedVars, smoothedAmplitude, now, req, handleVars, trackEnabled, trackLive, ctxState,
                  recState, onstopSet, stopQueued, stopFired, pipe, clip, durationMs,
                  grantedAt, emptyAtEnd, frameVars, timeVars, isMicOn, audioStarted, uiVars,
                  elVars >>

\* performance.now() - self.startTime: a null start time counts as 0.
Duration(t, st) == t - (IF st = NoTime THEN 0 ELSE st)

\* The task stop() queued on recorder r: the last dataavailable event, then the stop
\* event, whose handler (when end() installed one) assembles the clip and reads it.
RecorderStopped(r, size) ==
  /\ stopQueued[r]
  /\ size > 0 => delivered[r] < MaxChunks
  /\ recordedChunks' = PushChunk(recordedChunks, r, size)
  /\ delivered' = [delivered EXCEPT ![r] = IF size > 0 THEN @ + 1 ELSE @]
  /\ stopQueued' = [stopQueued EXCEPT ![r] = FALSE]
  /\ stopFired' = [stopFired EXCEPT ![r] = TRUE]
  /\ IF onstopSet[r]
     THEN /\ clip' = [clip EXCEPT ![r] = PushChunk(recordedChunks, r, size)]
          /\ durationMs' = [durationMs EXCEPT ![r] = Duration(now, startTime)]
          /\ pipe' = [pipe EXCEPT ![r] = "readBinary"]
     ELSE UNCHANGED << clip, durationMs, pipe >>
  /\ lastCall' = NoCall /\ fault' = "none" /\ emitted' = << >>
  /\ UNCHANGED << fixedVars, smoothedAmplitude, now, req, handleVars, trackEnabled, trackLive, ctxState,
                  recState, onstopSet, grantedAt, emptyAtEnd, frameVars, timeVars, isMicOn,
                  audioStarted, uiVars,
                  elVars >>

\* readerBinary.onload: the data-URL read of the clip starts.
BinaryLoaded(r) ==
  /\ pipe[r] = "readBinary"
  /\ pipe' = [pipe EXCEPT ![r] = "readDataURL"]
  /\ lastCall' = NoCall /\ fault' = "none" /\ emitted' = << >>
  /\ UNCHANGED << fixedVars, smoothedAmplitude, now, req, handleVars, trackEnabled, trackLive, ctxState,
                  recState, onstopSet, stopQueued, stopFired, delivered, clip, durationMs,
                  grantedAt, emptyAtEnd, frameVars, timeVars, isMicOn, audioStarted,
                  recordedChunks, uiVars,
                  elVars >>

\* readerDataURL.onload: VoiceChatLib.analyzeAudio(blob) is called.
DataURLLoaded(r) ==
  /\ pipe[r] = "readDataURL"
  /\ pipe' = [pipe EXCEPT ![r] = "analyzing"]
  /\ lastCall' = NoCall /\ fault' = "none" /\ emitted' = << >>
  /\ UNCHANGED << fixedVars, smoothedAmplitude, now, req, handleVars, trackEnabled, trackLive, ctxState,
                  recState, onstopSet, stopQueued, stopFired, delivered, clip, durationMs,
                  grantedAt, emptyAtEnd, frameVars, timeVars, isMicOn, audioStarted,
                  recordedChunks, uiVars,
                  elVars >>

\* The error event of the FileReader that reads clip r (readerBinary or
\* readerDataURL): neither has an onerror handler, so nothing follows.
ReadFailed(r) ==
  /\ pipe[r] \in {"readBinary", "readDataURL"}
  /\ pipe' = [pipe EXCEPT ![r] = "readFailed"]
  /\ lastCall' = NoCall /\ fault' = "none" /\ emitted' = << >>
  /\ UNCHANGED << fixedVars, smoothedAmplitude, now, req, handleVars, trackEnabled, trackLive, ctxState,
                  recState, onstopSet, stopQueued, stopFired, delivered, clip, durationMs,
                  grantedAt, emptyAtEnd, frameVars, timeVars, isMicOn, audioStarted,
                  recordedChunks, uiVars,
                  elVars >>

\* analyzeAudio can resolve only on a clip that holds audio: an empty clip makes
\* OfflineAudioContext(1, 0, 44100) throw, which rejects.
CanResolve(blob) == blob # << >>

AnalysisOutcomes == {"resolved", "rejected"}

\* The analysis promise settles: the then / catch continuation calls onEnd.
AnalysisSettled(r, outcome) ==
  /\ pipe[r] = "analyzing"
  /\ outcome = "resolved" => CanResolve(clip[r])
  /\ pipe' = [pipe EXCEPT ![r] = "done"]
  /\ emitted' = << EndNoteClip(r, clip[r], durationMs[r], outcome) >>
  /\ lastCall' = NoCall /\ fault' = "none"
  /\ UNCHANGED << fixedVars, smoothedAmplitude, now, req, handleVars, trackEnabled, trackLive, ctxState,
                  recState, onstopSet, stopQueued, stopFired, delivered, clip, durationMs,
                  grantedAt, emptyAtEnd, frameVars, timeVars, isMicOn, audioStarted,
                  recordedChunks, uiVars,
                  elVars >>

\* ------------------------------------------------------------ getInstance()
\* The options objects a page passes to getInstance().
OptionSets ==
  << NoOptions,
     [amplitudeSmoothFactorVar |-> Rat(1, 2)],
     [baseRotationDivisor |-> Whole(8)],
     [elements |-> [toggleBtn |-> "#mic"]],
     [maxAdditionalRotation |-> Whole(180),
      elements |-> [endBtn |-> "#stop", voiceEls |-> ".orb"]] >>

\* if (!instance)
MustConstruct(inst) == inst = NULL

\* getInstance(options): the first call constructs the instance from the options, a
\* later call hands the options, if any, to setOptions(); the instance is returned.
GetInstance(options) ==
  /\ IF MustConstruct(instance)
     THEN /\ instance' = instance + 1
          /\ config' = MergeOptions(DefaultConfig, options)
     ELSE /\ instance' = instance
          /\ config' = IF DOMAIN options # {} THEN MergeOptions(config, options)
                       ELSE config
  /\ returned' = instance'
  /\ UNCHANGED << hostRecorder, sound, channelData, analysis, smoothedAmplitude, now, req,
                  handleVars, hostVars, frameVars, timeVars, isMicOn, audioStarted,
                  recordedChunks, uiVars, elVars, lastCall, fault, emitted >>

\* ------------------------------------------------------------ analyzeAudio()
\* The clips analyzeAudio() can be handed: one the FileReader cannot read, an empty
\* one (OfflineAudioContext(1, 0, 44100) throws), one decodeAudioData() fails on, and
\* one that decodes, with the samples of its first channel.
SampleValues == {Rat(-1, 2), Zero, Rat(1, 64), Rat(1, 2)}

Clips ==
  {[kind |-> k, samples |-> << >>] : k \in {"unreadable", "empty", "undecodable"}}
  \cup {[kind |-> "audio", samples |-> q] :
          q \in UNION {[1..n -> SampleValues] : n \in 1..MaxSamples}}

\* Math.abs of a number.
RatAbs(x) == << Abs(x[1]), x[2] >>

\* A slip: the samples are summed with their signs.
MeanAbs_Signed(q) ==
  LET total[k \in 0..Len(q)] == IF k = 0 THEN Zero ELSE RatAdd(total[k - 1], q[k])
  IN  RatDiv(total[Len(q)], Whole(Len(q)))

\* sum of Math.abs(channelData[i]), over channelData.length.
MeanAbs(q) ==
  LET total[k \in 0..Len(q)] == IF k = 0 THEN Zero ELSE RatAdd(total[k - 1], RatAbs(q[k]))
  IN  RatDiv(total[Len(q)], Whole(Len(q)))

SilenceThreshold == Rat(2, 100)

Pending == [state |-> "pending", avgAmplitude |-> Zero, isMostlySilence |-> FALSE]
Rejected == [state |-> "rejected", avgAmplitude |-> Zero, isMostlySilence |-> FALSE]

\* How the promise settles on clip c.
Analyze(c) ==
  IF c.kind = "audio"
  THEN [state |-> "resolved", avgAmplitude |-> MeanAbs(c.samples),
        isMostlySilence |-> RatLt(MeanAbs(c.samples), SilenceThreshold)]
  ELSE Rejected

\* VoiceChatLib.analyzeAudio(blob): the promise is created and the read is started.
AnalyzeAudio(c) ==
  /\ analysis.state # "pending"
  /\ channelData' = c
  /\ analysis' = Pending
  /\ UNCHANGED << hostRecorder, instance, returned, config, sound, smoothedAmplitude, now,
                  req, handleVars, hostVars, frameVars, timeVars, isMicOn, audioStarted,
                  recordedChunks, uiVars, elVars, lastCall, fault, emitted >>

\* The read ends (onload or onerror) and, after onload, the decoding ends: the promise
\* is resolved or rejected.
AnalyzeSettled ==
  /\ analysis.state = "pending"
  /\ analysis' = Analyze(channelData)
  /\ UNCHANGED << hostRecorder, instance, returned, config, sound, channelData,
                  smoothedAmplitude, now, req, handleVars, hostVars, frameVars, timeVars,
                  isMicOn, audioStarted, recordedChunks, uiVars, elVars, lastCall, fault,
                  emitted >>

\* ---------------------------------------------------------------- document
\* The page inserts node e, which matches the voiceEls selector.
InsertElement(e) ==
  /\ e \notin inDom
  /\ inDom' = inDom \cup {e}
  /\ lastCall' = NoCall /\ fault' = "none" /\ emitted' = << >>
  /\ UNCHANGED << fixedVars, smoothedAmplitude, now, req, handleVars, hostVars, frameVars, timeVars,
                  isMicOn, audioStarted, recordedChunks, uiVars, voiceEls, el >>

\* -------------------------------------------------------------------- time
\* performance.now() advances by d between two handlers.
Tick(d) ==
  /\ now + d <= MaxNow
  /\ now' = now + d
  /\ lastCall' = NoCall /\ fault' = "none" /\ emitted' = << >>
  /\ UNCHANGED << fixedVars, smoothedAmplitude, req, handleVars, hostVars, frameVars, timeVars, isMicOn,
                  audioStarted, recordedChunks, uiVars,
                  elVars >>

\* ----------------------------------------------------------- specification
\* Every step but a call of start().
OtherSteps ==
  \/ DomMutation
  \/ \E i \in Req, out \in RecorderOutcomes : MicGranted(i, out)
  \/ \E i \in Req : MicDenied(i)
  \/ \E id \in FrameIds : Frame(id)
  \/ ToggleMic
  \/ End
  \/ Reset
  \/ \E r \in Req, size \in FragmentSizes : DataAvailable(r, size)
  \/ \E r \in Req, size \in FragmentSizes : RecorderStopped(r, size)
  \/ \E r \in Req : BinaryLoaded(r)
  \/ \E r \in Req : DataURLLoaded(r)
  \/ \E r \in Req : ReadFailed(r)
  \/ \E r \in Req, outcome \in AnalysisOutcomes : AnalysisSettled(r, outcome)

Next == Start \/ OtherSteps

\* The lifecycle with the clock standing still: every timestamp is T0 or null.
Spec == Init /\ [][Next]_vars

\* No microphone request is waiting for its answer.
NoRequestInFlight == \A i \in Req : req[i] \notin {"pending", "stale"}

\* The lifecycle when start() is only called while no microphone request is in flight.
SoloNext == (NoRequestInFlight /\ Start) \/ OtherSteps

SpecSolo == Init /\ [][SoloNext]_vars

\* What the host guarantees of the work it has queued: a stopped recorder's stop event
\* is dispatched, a started read of the clip ends (by load or by error), and the
\* analysis promise settles.  Nothing is guaranteed of the calls the page makes.
HostFairness ==
  \A r \in Req :
    /\ WF_vars(\E size \in FragmentSizes : RecorderStopped(r, size))
    /\ WF_vars(BinaryLoaded(r) \/ DataURLLoaded(r) \/ ReadFailed(r))
    /\ WF_vars(\E outcome \in AnalysisOutcomes : AnalysisSettled(r, outcome))

\* The lifecycle of SpecSolo with the host completing what it has queued.
SpecLive == Init /\ [][SoloNext]_vars /\ HostFairness

\* One session at a time with the clock running: start(), the grant, frames, end(),
\* reset(), and the recorder's stop event with the clip pipeline behind it.
TimedNext ==
  \/ NoRequestInFlight /\ Start
  \/ \E i \in Req, out \in RecorderOutcomes : MicGranted(i, out)
  \/ \E id \in FrameIds : Frame(id)
  \/ End
  \/ Reset
  \/ \E r \in Req, size \in FragmentSizes : RecorderStopped(r, size)
  \/ \E r \in Req : BinaryLoaded(r)
  \/ \E r \in Req : DataURLLoaded(r)
  \/ \E r \in Req, outcome \in AnalysisOutcomes : AnalysisSettled(r, outcome)
  \/ \E d \in {ShortGap, LongGap} : Tick(d)

SpecTimed == Init /\ [][TimedNext]_vars


\* One session at a time with the clock running and the page inserting voice
\* elements: start(), the observer's rebinds, the grant, frames, end() and reset().
RebindNext ==
  \/ NoRequestInFlight /\ Start
  \/ \E e \in Els : InsertElement(e)
  \/ DomMutation
  \/ \E i \in Req, out \in RecorderOutcomes : MicGranted(i, out)
  \/ \E id \in FrameIds : Frame(id)
  \/ End
  \/ Reset
  \/ \E d \in {ShortGap, LongGap} : Tick(d)

SpecRebind == Init /\ [][RebindNext]_vars

\* The smoothing factors a page configures: the default and two others of (0, 1].
SmoothFactors == {Rat(3, 10), Rat(1, 2), One}

\* A page constructed with one of the smoothing factors.
InitAmp ==
  /\ Fresh
  /\ instance = 1 /\ returned = 1
  /\ \E a \in SmoothFactors :
       config = MergeOptions(DefaultConfig, [amplitudeSmoothFactorVar |-> a])
  /\ sound = Silence
  /\ channelData = NoClip /\ analysis = NotRun

\* One session at a time with a sound at the microphone: start(), the grant, frames
\* reading the analyser, a direct call of updateAnimation(), a voice element inserted
\* and bound, end() and reset().  The clock stands still.
AmpNext ==
  \/ NoRequestInFlight /\ Start
  \/ \E data \in Sounds : Sound(data)
  \/ \E i \in Req : MicGranted(i, "ok")
  \/ \E id \in FrameIds : Frame(id)
  \/ UpdateAnimationCall
  \/ InsertElement(1)
  \/ DomMutation
  \/ End
  \/ Reset

SpecAmp == InitAmp /\ [][AmpNext]_vars

\* The page before its script has called getInstance(): no instance and no
\* configuration yet; the other variables show what the constructor will set.
NoConfig == [k \in {} |-> NULL]

InitUnbuilt ==
  /\ Fresh
  /\ instance = NULL /\ returned = NULL
  /\ config = NoConfig
  /\ sound = Silence
  /\ channelData = NoClip /\ analysis = NotRun

\* getInstance() called at any point, with or without options, around one session at
\* a time run on the instance it returned.
ConfigNext ==
  \/ \E k \in 1..Len(OptionSets) : GetInstance(OptionSets[k])
  \/ instance # NULL /\ NoRequestInFlight /\ Start
  \/ instance # NULL /\ \E i \in Req : MicGranted(i, "ok")
  \/ instance # NULL /\ \E id \in FrameIds : Frame(id)
  \/ instance # NULL /\ ToggleMic
  \/ instance # NULL /\ End
  \/ instance # NULL /\ Reset

SpecConfig == InitUnbuilt /\ [][ConfigNext]_vars

\* The analyzer on its own: calls of analyzeAudio() on the clips of Clips, one after
\* the other.
AnalyzeNext ==
  \/ \E c \in Clips : AnalyzeAudio(c)
  \/ AnalyzeSettled

SpecAnalyze == Init /\ [][AnalyzeNext]_vars

\* ------------------------------------------------------------------ claims
Notes == {emitted[k] : k \in 1..Len(emitted)}
Range(q) == {q[k] : k \in 1..Len(q)}
RecorderActive(r) == r # NULL /\ recState[r] \in {"recording", "paused"}

\* C1: while a session is Capturing and holds an active recorder, the recorder is
\* paused exactly when isMicOn is false (recording exactly when it is true), and
\* the held stream's audio track has enabled = isMicOn.
C1_Lockstep ==
  (Capturing /\ RecorderActive(mediaRecorder)) =>
    /\ (recState[mediaRecorder] = "paused") <=> ~isMicOn
    /\ (recState[mediaRecorder] = "recording") <=> isMicOn
    /\ trackEnabled[audioStream] = isMicOn

\* C2: an end notification that carries a clip is emitted only after the recorder's
\* stop event has fired and the analysis of the clip has then resolved or rejected;
\* the analysis itself starts only after the stop event.
C2_ClipAfterStopThenAnalysis ==
  /\ \A n \in Notes :
       (n.event = "end" /\ "audioBlob" \in n.fields) =>
         /\ n.rec # NULL
         /\ stopFired[n.rec]
         /\ pipe[n.rec] = "done"
         /\ n.analysis \in AnalysisOutcomes
  /\ \A r \in Req : pipe[r] \in {"analyzing", "done"} => stopFired[r]

\* A clip-carrying end notification was just emitted, its analysis resolved.
C2_Witness ==
  \E n \in Notes : n.event = "end" /\ "audioBlob" \in n.fields /\ n.analysis = "resolved"

\* The session behind end notification n delivered no fragment: the buffer was empty
\* when end() was called and empty when the clip was assembled.
ZeroFragments(n) ==
  IF n.rec = NULL THEN recordedChunks = << >>
  ELSE emptyAtEnd[n.rec] /\ delivered[n.rec] = 0 /\ n.clip = << >>

\* C3: an end notification for a session with zero recorded fragments (a recorder
\* being active or not) has no audioBlob and says that no audio was recorded.
C3_EmptyBufferNoClip ==
  \A n \in Notes :
    (n.event = "end" /\ ZeroFragments(n)) =>
      ("audioBlob" \notin n.fields /\ n.details = DetailsNoAudio)

C5_OneFrameRequest == Cardinality(rafPending) <= 1

\* C6: at most one live microphone stream and at most one active recorder at a time.
C6_OneCaptureSequence ==
  /\ Cardinality({i \in Req : trackLive[i]}) <= 1
  /\ Cardinality({i \in Req : RecorderActive(i)}) <= 1

\* C7: a microphone request that end() or reset() overtook is not acted upon when it
\* is granted: no handle, animation loop, recorder or flag changes, nothing is emitted.
C7_LateGrantIgnored ==
  [][(\E i \in Req : req[i] = "stale" /\ req'[i] = "granted") =>
       /\ UNCHANGED << handleVars, frameVars, audioStarted, recState, ctxState, trackLive >>
       /\ emitted' = << >>]_vars

\* C8: toggleMic() outside Capturing neither changes isMicOn nor emits a notification.
C8_ToggleOnlyWhenCapturing ==
  [][(ToggleMic /\ ~Capturing) => (isMicOn' = isMicOn /\ emitted' = << >>)]_vars

\* C9: a second toggleMic() right after a first one brings isMicOn back to its value
\* before the first; pause() is only invoked on a recording recorder, resume() only
\* on a paused one, and neither throws.
C9_ToggleTwiceRestores ==
  [][ToggleMic =>
       /\ MicAfterToggle(mediaRecorder', audioStream', isMicOn') = isMicOn
       /\ lastCall'.op = "pause" => lastCall'.on = "recording"
       /\ lastCall'.op = "resume" => lastCall'.on = "paused"
       /\ fault' = "none"]_vars

\* The recorder was just resumed by a toggle that followed a pausing one.
C9_Witness == lastCall.op = "resume" /\ isMicOn /\ RecorderActive(mediaRecorder)

\* What reset() is to leave behind.
IdleAfterReset ==
  /\ ~audioStarted
  /\ rafPending = {}
  /\ audioStream = NULL /\ audioContext = NULL
  /\ \A i \in Req : ~RecorderActive(i)
  /\ recordedChunks = << >>
  /\ startTime = NoTime /\ lastFrameTime = NoTime
  /\ isMicOn
  /\ ~toggleDisabled /\ ~endDisabled

\* C10: reset() succeeds from every state without an error and leaves the session
\* Idle: no frame pending, no stream or audio graph held, no recorder recording or
\* paused, no buffered fragments, timestamps cleared, mic flag true, controls enabled.
C10_ResetReachesIdle == [][Reset => (fault' = "none" /\ IdleAfterReset')]_vars

\* C11: end() on a Capturing session leaves no animation-frame request outstanding,
\* no media track live and no audio graph running, and the toggle and end controls
\* disabled, however Capturing was reached.
C11_EndTearsDown ==
  [][(End /\ Capturing) =>
       /\ rafPending' = {}
       /\ \A i \in Req : ~trackLive'[i]
       /\ \A i \in Req : ctxState'[i] # "running"
       /\ toggleDisabled' /\ endDisabled']_vars

\* C12: the duration the recorder's stop handler computes, and the end notification
\* carries, is the time the stop event is handled minus the time the session's grant
\* was handled, whatever frames ran in between.
C12_DurationFromSessionStart ==
  [][/\ \A r \in Req :
          (stopFired'[r] /\ ~stopFired[r] /\ onstopSet[r]) =>
            durationMs'[r] = now - grantedAt[r]
     /\ \A n \in Notes' :
          (n.event = "end" /\ "audioMeta" \in n.fields) =>
            n.duration = durationMs'[n.rec]]_vars

\* C13: end() while this.mediaRecorder is null or not recording or paused calls
\* onEnd within end() itself, with exactly one end notification that has none of the
\* clip fields.
C13_EndWithoutRecorderNote ==
  [][(End /\ ~RecorderActive(mediaRecorder)) =>
       /\ Len(emitted') = 1
       /\ emitted'[1].event = "end"
       /\ emitted'[1].fields \cap ClipFields = {}
       /\ emitted'[1].details = DetailsNoAudio]_vars

\* end() has just run on a started session whose recorder was already inactive.
C13_Witness ==
  /\ emitted = << EndNoteNoClip >>
  /\ audioStarted
  /\ mediaRecorder # NULL /\ recState[mediaRecorder] = "inactive"

\* C14: once end() has stopped an active recorder, an end notification is eventually
\* emitted, whatever way the stop event, the reads of the clip and the analysis
\* complete.
C14_EndNoteEventually ==
  \A r \in Req :
    (onstopSet[r] /\ stopQueued[r]) ~> (\E n \in Notes : n.event = "end")

\* The session captures without a recorder of its own: none was constructed for its
\* stream, or the one constructed failed to start.
RecorderFailed == Capturing /\ recState[audioStream] \in {"none", "inactive"}

ControlsEnabled == ~toggleDisabled /\ ~endDisabled

\* C15: after a denied microphone request, after a grant whose recorder is unavailable
\* or fails, and after a rejected analysis, the toggle and end controls are
\* eventually enabled.
C15_ErrorPathsReenableControls ==
  /\ lastCall.op = "alert" ~> ControlsEnabled
  /\ RecorderFailed ~> ControlsEnabled
  /\ (\E n \in Notes : n.event = "end" /\ n.analysis = "rejected") ~> ControlsEnabled

\* C16: when a microphone request is denied, no stream, audio graph, recorder or
\* animation loop is created and the session does not enter Capturing, no
\* notification is emitted, the failure is shown with alert(); and a microphone
\* request is only ever issued by a call of start().
C16_DenialLeavesIdle ==
  [][/\ \A i \in Req :
          (req'[i] = "denied" /\ req[i] # "denied") =>
            /\ UNCHANGED << handleVars, frameVars, audioStarted, trackLive, trackEnabled,
                            ctxState, recState, timeVars >>
            /\ Capturing' <=> Capturing
            /\ emitted' = << >>
            /\ lastCall'.op = "alert"
     /\ (\E j \in Req : req'[j] = "pending" /\ req[j] # "pending") => Start]_vars

\* The only request of the run was just denied: nothing was created.
C16_Witness ==
  /\ lastCall.op = "alert"
  /\ \E i \in Req : req[i] = "denied"
  /\ \A i \in Req : req[i] \in {"denied", "unused"}
  /\ ~audioStarted /\ audioStream = NULL /\ rafPending = {}

\* C17: a grant whose recorder is unavailable or fails to construct or start still
\* makes the session Capturing, with a frame requested and the start notification
\* emitted; in such a session toggleMic() flips the flag and the track, and end()
\* emits the end notification without a clip.
C17_CaptureWithoutRecorder ==
  [][/\ \A i \in Req :
          (req'[i] = "granted" /\ req[i] # "granted" /\ ~RecorderActive(i)') =>
            /\ Capturing'
            /\ animationId' \in rafPending'
            /\ \E n \in Notes' : n.event = "start"
     /\ (ToggleMic /\ RecorderFailed) =>
          /\ isMicOn' = ~isMicOn
          /\ trackEnabled'[audioStream] = isMicOn'
     /\ (End /\ RecorderFailed) => emitted' = << EndNoteNoClip >>]_vars

\* C18: when the analysis of recorder r's clip rejects, nothing is thrown and onEnd
\* is called once, with an end notification that has every clip field, the clip
\* and the duration the stop handler assembled, the rejection in its analysis field
\* and the analysis-failed details; a recorder's clip notification is emitted only
\* in the step that settles its analysis, which happens once.
C18_RejectionStillEnds ==
  [][/\ \A r \in Req :
          AnalysisSettled(r, "rejected") =>
            /\ fault' = "none"
            /\ Len(emitted') = 1
            /\ emitted'[1].event = "end"
            /\ emitted'[1].fields = ClipFields
            /\ emitted'[1].rec = r
            /\ emitted'[1].clip = clip[r]
            /\ emitted'[1].duration = durationMs[r]
            /\ emitted'[1].analysis = "rejected"
            /\ emitted'[1].details = DetailsAnalysisFailed
     /\ \A n \in Notes' :
          (n.event = "end" /\ n.rec # NULL) =>
            (pipe[n.rec] = "analyzing" /\ pipe'[n.rec] = "done")
     /\ \A r \in Req : pipe[r] = "done" => pipe'[r] = "done"]_vars

\* The analysis of a clip that holds a fragment was just rejected.
C18_Witness ==
  \E n \in Notes : n.event = "end" /\ n.analysis = "rejected" /\ n.clip # << >>

\* The grant that began the session now held.
SessionStart == grantedAt[audioStream]

\* C19: reset() clears both timestamps; the grant of the next session sets them to
\* the time of that grant; and from then on this.startTime, this.lastFrameTime and
\* the start time behind every rotation a frame or a bind-time prediction writes
\* are never older than the grant of the session held: no timestamp of an earlier
\* session is used.
C19_FreshBaseline ==
  [][/\ Reset => (startTime' = NoTime /\ lastFrameTime' = NoTime)
     /\ \A i \in Req :
          (req'[i] = "granted" /\ req[i] # "granted") =>
            (startTime' = now /\ lastFrameTime' = now)
     /\ startTime' # NoTime => (audioStream' # NULL /\ startTime' >= SessionStart')
     /\ lastFrameTime' # NoTime => (audioStream' # NULL /\ lastFrameTime' >= SessionStart')
     /\ \A e \in Els :
          (el'[e] # el[e] /\ el'[e].base # NoTime) =>
            (audioStream' # NULL /\ el'[e].base >= SessionStart')]_vars

\* A second session, granted later than the first, holds an element whose rotation
\* was predicted at bind time from the second session's start and one a frame wrote.
C19_Witness ==
  /\ audioStream = 2
  /\ grantedAt[1] # NoTime /\ grantedAt[2] > grantedAt[1]
  /\ \E e \in Els : el[e].writer = "predicted" /\ el[e].base = grantedAt[2]
  /\ \E e \in Els : el[e].writer = "frame"

\* C20: an initialized element stays initialized and keeps its random draw (offset,
\* speed, scale multiplier, transform origin) in every step, and a rebind (from
\* start() or from the mutation observer) leaves its rotation and scale as they were.
C20_RebindIdempotent ==
  [][\A e \in Els :
       el[e].initialized =>
         /\ el'[e].initialized
         /\ el'[e].draw = el[e].draw
         /\ (Start \/ DomMutation) => el'[e] = el[e]]_vars

\* A rebind ran after a frame had written element 1: it bound element 2 at a later
\* time and left element 1 as the frame wrote it.
C20_Witness ==
  /\ voiceEls = {1, 2}
  /\ el[1].writer = "frame"
  /\ el[2].writer = "predicted"
  /\ el[2].at > el[1].at

\* --------------------------------------------------------------------- C21
\* The rotation and scale the specification predicts for a node of draw d bound at
\* this moment of a capturing session.
ExpectedRotation(d) ==
  RatAdd(Offset(d),
         RatAdd(RatDiv(RatMul(Whole(now - startTime), Speed(d)),
                       config["baseRotationDivisor"]),
                RatMul(smoothedAmplitude, config["maxAdditionalRotation"])))
ExpectedScale(d) ==
  RatAdd(One, RatMul(smoothedAmplitude,
                     RatMul(ScaleMultiplier(d), config["baseScaleMultiplier"])))

FirstBound(e) == ~el[e].initialized /\ el'[e].initialized

\* C21: a node first bound while the session is Capturing starts at the predicted
\* rotation and scale (at the offset itself when the smoothed amplitude and the
\* effective time are 0); a node first bound while no session is capturing starts
\* at rotation 0 and scale 1.
C21_FirstBinding ==
  [][\A e \in Els : FirstBound(e) =>
       IF Capturing
       THEN /\ el'[e].rotation = ExpectedRotation(el'[e].draw)
            /\ el'[e].scale = ExpectedScale(el'[e].draw)
            /\ (smoothedAmplitude = Zero /\ now = startTime)
                 => el'[e].rotation = Offset(el'[e].draw)
       ELSE /\ el'[e].rotation = Zero
            /\ el'[e].scale = One]_vars

\* --------------------------------------------------------------------- C22
\* A step in which updateAnimation() reads the analyser.
ReadsAnalyser ==
  \/ \E id \in FrameIds : Frame(id) /\ analyser # NULL
  \/ \E i \in Req, out \in RecorderOutcomes : MicGranted(i, out)

RatMin(a, b) == IF RatLeq(a, b) THEN a ELSE b
RatMax(a, b) == IF RatLeq(a, b) THEN b ELSE a

\* The normalized amplitude of the bytes the analyser hands out: the mean of
\* |byte - 128| over the bytes, over 128.
Reading ==
  LET dev(k) == IF sound[k] >= 128 THEN sound[k] - 128 ELSE 128 - sound[k]
      total[k \in 0..Bins] == IF k = 0 THEN 0 ELSE total[k - 1] + dev(k)
  IN  Rat(total[Bins], Bins * 128)

\* C22: for every configured smoothing factor of (0, 1] and every reading, the smoothed
\* amplitude after an update lies between the smoothed amplitude before it and the
\* reading.
C22_SmoothingIsBounded ==
  [][ReadsAnalyser =>
       /\ RatLeq(RatMin(smoothedAmplitude, Reading), smoothedAmplitude')
       /\ RatLeq(smoothedAmplitude', RatMax(smoothedAmplitude, Reading))]_vars

\* An update has moved the smoothed amplitude part of the way from 1/2 towards a
\* reading of silence, under the factor 1/2.
C22_Witness ==
  /\ smoothedAmplitude = Rat(1, 4)
  /\ sound = Silence
  /\ config["amplitudeSmoothFactorVar"] = Rat(1, 2)
  /\ Capturing

\* --------------------------------------------------------------------- C23
\* C23: in every reachable state the smoothed amplitude is within [0, 1], whatever
\* the bytes read, the configured smoothing factor of (0, 1] and the sessions ended,
\* reset and started so far.
C23_AmplitudeInUnitInterval ==
  RatLeq(Zero, smoothedAmplitude) /\ RatLeq(smoothedAmplitude, One)

\* The second session captures with the amplitude the first one left at its maximum.
C23_Witness ==
  /\ smoothedAmplitude = One
  /\ Capturing
  /\ audioStream = 2
  /\ req[1] = "granted"

\* --------------------------------------------------------------------- C27
\* A requestAnimationFrame callback that gets past the analyser test.
FrameRuns == analyser # NULL /\ \E id \in FrameIds : Frame(id)

\* C27: a frame that comes more than MAX_DELTA after the previous processed frame has
\* effective time 0; the effective time of every frame is at least 0 and at most the
\* time since the microphone grant of the session.
C27_EffectiveTime ==
  [][FrameRuns =>
       /\ (lastFrameTime # NoTime /\ now - lastFrameTime > MAX_DELTA) => now - startTime' = 0
       /\ now - startTime' >= 0
       /\ audioStream # NULL
       /\ now - startTime' <= now - grantedAt[audioStream]]_vars

\* A frame has just reset the base, at least a long gap after the grant.
C27_Witness ==
  /\ Capturing
  /\ startTime = now /\ lastFrameTime = now
  /\ now - grantedAt[audioStream] >= LongGap

\* --------------------------------------------------------------------- C28
\* C28: updateAnimation() without an analyser leaves the smoothed amplitude, both
\* timestamps and every element's rotation and scale as they are, and requests no
\* animation frame.
C28_NoAnalyserNoOp ==
  [][(analyser = NULL /\ (UpdateAnimationCall \/ \E id \in FrameIds : Frame(id))) =>
       /\ UNCHANGED << smoothedAmplitude, startTime, lastFrameTime, el >>
       /\ rafPending' \subseteq rafPending
       /\ animationId' = animationId]_vars

\* No analyser is attached, a voice element is bound, and the microphone is not silent:
\* a call of updateAnimation() here would have something to change.
C28_Witness ==
  /\ analyser = NULL
  /\ voiceEls = {1} /\ el[1].writer = "rest"
  /\ sound # Silence
  /\ req[1] = "pending"

\* --------------------------------------------------------------------- C24
\* The mean of the absolute values of samples q.
MeanOfMagnitudes(q) ==
  LET mag(k) == IF q[k][1] < 0 THEN << -q[k][1], q[k][2] >> ELSE q[k]
      total[k \in 0..Len(q)] == IF k = 0 THEN Zero ELSE RatAdd(total[k - 1], mag(k))
  IN  Rat(total[Len(q)][1], total[Len(q)][2] * Len(q))

AllZero(q) == \A k \in 1..Len(q) : q[k] = Zero
Alternating(q) ==
  \A k \in 1..Len(q) : q[k] = IF k % 2 = 1 THEN Rat(1, 2) ELSE Rat(-1, 2)

\* C24: the analyzer resolves with avgAmplitude the mean absolute value of the first
\* channel's samples and isMostlySilence = (avgAmplitude < 0.02): 0 and true on
\* all-zero samples, 0.5 and false on samples alternating +0.5 / -0.5; on a clip that
\* cannot be decoded it rejects and does not resolve.
C24_AnalyzerResult ==
  /\ analysis.state = "resolved" =>
       /\ channelData.kind = "audio"
       /\ analysis.avgAmplitude = MeanOfMagnitudes(channelData.samples)
       /\ analysis.isMostlySilence <=> RatLt(analysis.avgAmplitude, Rat(2, 100))
       /\ AllZero(channelData.samples) =>
            (analysis.avgAmplitude = Zero /\ analysis.isMostlySilence)
       /\ Alternating(channelData.samples) =>
            (analysis.avgAmplitude = Rat(1, 2) /\ ~analysis.isMostlySilence)
  /\ (analysis.state \in {"resolved", "rejected"} /\ channelData.kind # "audio") =>
       analysis.state = "rejected"
  /\ analysis.state = "rejected" => channelData.kind # "audio"

\* The analyzer has resolved on three samples alternating +0.5 / -0.5.
C24_Witness ==
  /\ analysis.state = "resolved"
  /\ channelData.samples = << Rat(1, 2), Rat(-1, 2), Rat(1, 2) >>
  /\ analysis.avgAmplitude = Rat(1, 2)
  /\ ~analysis.isMostlySilence

\* --------------------------------------------------------------------- C25
\* Everything but the singleton, what getInstance() returned and the configuration.
sessionVars ==
  << hostRecorder, sound, channelData, analysis, smoothedAmplitude, now, req, handleVars,
     hostVars, frameVars, timeVars, isMicOn, audioStarted, recordedChunks, uiVars, elVars,
     lastCall, fault, emitted >>

\* after is before with the options merged in: per key, and 'elements' per sub-key.
MergedOver(before, options, after) ==
  /\ DOMAIN after = DOMAIN before \cup DOMAIN options
  /\ \A k \in DOMAIN after \ {"elements"} :
       after[k] = IF k \in DOMAIN options THEN options[k] ELSE before[k]
  /\ IF "elements" \in DOMAIN options
     THEN /\ DOMAIN after["elements"] =
               DOMAIN before["elements"] \cup DOMAIN options["elements"]
          /\ \A sk \in DOMAIN after["elements"] :
               after["elements"][sk] = IF sk \in DOMAIN options["elements"]
                                       THEN options["elements"][sk]
                                       ELSE before["elements"][sk]
     ELSE after["elements"] = before["elements"]

\* C25: getInstance() always returns the one instance; the first call constructs it
\* with the options merged over the defaults, a later call merges its options into the
\* configuration of the instance (per key, 'elements' per sub-key) and neither replaces
\* the instance nor touches the session state or a key the options do not name.
C25_SingletonAccessor ==
  [][/\ \A k \in 1..Len(OptionSets) : GetInstance(OptionSets[k]) =>
          /\ instance' # NULL /\ returned' = instance'
          /\ instance # NULL => instance' = instance
          /\ MergedOver(IF instance = NULL THEN DefaultConfig ELSE config,
                        OptionSets[k], config')
          /\ UNCHANGED sessionVars
     /\ instance # NULL => instance' = instance
     /\ (config' # config \/ returned' # returned) =>
          \E k \in 1..Len(OptionSets) : GetInstance(OptionSets[k])]_vars

\* A capturing session whose instance has had two later option sets merged in: the
\* toggle selector and the smoothing factor are the given ones, the end selector and
\* the rotation divisor are still the defaults.
C25_Witness ==
  /\ Capturing
  /\ instance = 1 /\ returned = 1
  /\ config["elements"]["toggleBtn"] = "#mic"
  /\ config["elements"]["endBtn"] = "#endChatBtn"
  /\ config["amplitudeSmoothFactorVar"] = Rat(1, 2)
  /\ config["baseRotationDivisor"] = Whole(16)

\* --------------------------------------------------------------------- C26
\* The step in which the grant of request i is handled.
GrantHandled(i) == req'[i] = "granted" /\ req[i] # "granted"

\* C26: the handler of a successful grant emits exactly one start notification, and
\* when it is emitted the audio graph is built, the start time is recorded, the
\* animation loop has begun and the recorder is recording or is not available; the
\* notification's isMicOn is the flag at that moment.  No other step emits a start
\* notification.
C26_OneStartNoteAfterSetup ==
  [][/\ \A i \in Req : GrantHandled(i) =>
          /\ Len(emitted') = 1
          /\ emitted'[1].event = "start"
          /\ emitted'[1].isMicOn = isMicOn'
          /\ audioStream' = i /\ audioContext' = i /\ analyser' = i
          /\ ctxState'[i] = "running"
          /\ startTime' = now /\ lastFrameTime' = now
          /\ animationId' # NULL /\ animationId' \in rafPending'
          /\ audioStarted'
          /\ recState'[i] = "recording" \/ ~RecorderActive(i)'
          /\ (hostRecorder /\ recState'[i] = "recording") => mediaRecorder' = i
     /\ (\E n \in Notes' : n.event = "start") => \E i \in Req : GrantHandled(i)]_vars

\* The grant has just been handled with the microphone flag off: the start
\* notification says so.
C26_Witness ==
  /\ Len(emitted) = 1 /\ emitted[1].event = "start" /\ ~emitted[1].isMicOn
  /\ ~isMicOn
  /\ Capturing
  /\ animationId \in rafPending

\* --------------------------------------------------------------------- C29
\* C29: once a session that was capturing has been ended, start() begins no capture:
\* it issues no microphone request, starts no animation loop and emits no start
\* notification; and only reset() takes the lifecycle back to Idle.
C29_NoRestartBeforeReset ==
  [][/\ (Start /\ Ended) =>
          /\ req' = req
          /\ UNCHANGED << frameVars, handleVars, hostVars, timeVars >>
          /\ Ended'
          /\ emitted' = << >>
     /\ (~Idle /\ Idle') => Reset]_vars

\* start() has been called on an ended session while a microphone request was still
\* there to be issued: none is pending.
C29_Witness ==
  /\ Ended
  /\ lastCall = NoCall /\ emitted = << >>
  /\ domObserver /\ toggleBtn /\ endBtn
  /\ req = << "granted", "unused" >>
  /\ rafPending = {}

\* --------------------------------------------------------------------- C30
\* C30: a session has at most one end notification.  The end() that ends a capturing
\* session either emits one or leaves it to the recorder's stop handler, never both;
\* an end() on a session already ended neither emits one nor arranges another; the
\* stop handler's pipeline emits one at most; nothing else emits an end notification.
C30_OneEndNote ==
  [][/\ (End /\ Ended) =>
          /\ ~\E n \in Notes' : n.event = "end"
          /\ onstopSet' = onstopSet
     /\ (End /\ ~Ended) =>
          /\ Len(emitted') <= 1
          /\ (\E n \in Notes' : n.event = "end") => onstopSet' = onstopSet
     /\ \A r \in Req : pipe[r] = "done" => pipe'[r] = "done"
     /\ (\E n \in Notes' : n.event = "end") =>
          \/ End
          \/ \E r \in Req : pipe[r] = "analyzing" /\ pipe'[r] = "done" /\ Len(emitted') = 1]_vars

\* --------------------------------------------------------------------- C31
\* C31: an end notification comes after the start notification of its session: a step
\* that emits one is an end() on a session whose audio has started, or the settling of
\* the analysis of a recorder whose grant was handled; end() called in Idle (before
\* any grant, while the request is pending, after a denial or after reset()) emits
\* no end notification.
C31_EndAfterStart ==
  [][/\ (End /\ Idle) => ~\E n \in Notes' : n.event = "end"
     /\ \A n \in Notes' : n.event = "end" =>
          \/ End /\ audioStarted
          \/ n.rec # NULL /\ req[n.rec] = "granted"]_vars

\* --------------------------------------------------------------------- C32
\* The recorders whose fragments sequence q holds.
Sources(q) == {q[k][1] : k \in 1..Len(q)}

\* C32: while a session holds a stream, the fragment buffer holds only fragments of
\* that session's recorder, and the clip assembled for a recorder holds only that
\* recorder's fragments: a fragment a recorder stopped by reset() delivers late is in
\* neither.
C32_BufferHoldsOwnFragments ==
  /\ (audioStarted /\ audioStream # NULL) => Sources(recordedChunks) \subseteq {audioStream}
  /\ \A r \in Req : Sources(clip[r]) \subseteq {r}

====
